---------------------------- MODULE Spec2Model ----------------------------
(***************************************************************************)
(* Model of generate_font.py: the range resolver get_unicode_ranges and    *)
(* the command line entry point main that hands the resolved ranges to the *)
(* external converter lv_font_conv.                                        *)
(*                                                                         *)
(* Python strings that the program splits, parses or joins are modelled as *)
(* sequences of one-character strings, so that split(","), split("-"),     *)
(* int(s, 16) and ",".join are computed character by character.  Language  *)
(* codes and group labels are only ever used as dictionary keys and stay   *)
(* TLA+ strings.  A character that is not written as itself (one outside  *)
(* ASCII, a control character, the double quote, the backslash, the grave  *)
(* accent) is written as the name of its code point, "U+00EF", and counts  *)
(* as one character.                                                       *)
(***************************************************************************)
EXTENDS Integers, Sequences, FiniteSets, TLC

VARIABLES
    language,    \* the language argument of the call / args.language
    size,        \* args.size
    bpp,         \* args.bpp
    output,      \* args.output
    script_dir,  \* SCRIPT_DIR, the directory the script is installed in
    stdout_encoding, \* the encoding of sys.stdout, errors strict
    calls,       \* number of calls of get_unicode_ranges made so far
    iter_orders, \* the order in which each returning call walked the set `ranges`
    returned,    \* the values returned by the calls so far, oldest first
    error,       \* the exception that propagated out of the last call, or NoError
    pc,          \* position of main
    cmd,         \* the argument list built by main
    launched,    \* number of times subprocess.run was invoked
    proc,        \* the converter: not started, running, or how it ended
    exit_code    \* the value returned by main

vars == <<language, size, bpp, output, script_dir, stdout_encoding, calls, iter_orders, returned, error,
          pc, cmd, launched, proc, exit_code>>

-----------------------------------------------------------------------------
(* Bounds of the model *)

\* number of calls of get_unicode_ranges a caller makes with one language
MaxCalls == 2

-----------------------------------------------------------------------------
(* Static configuration *)

\* the threshold of the low/high split
BMP_LIMIT == 65536

NERD_FONT_RANGE == <<"0","x","E","0","0","0","-","0","x","F","8","F","F">>

\* the group string of "emoji": the adjacent literals of the source, concatenated
EmojiRanges ==
       <<"0","x","2","1","9","0","-","0","x","2","1","F","F",",">>
    \o <<"0","x","2","3","0","0","-","0","x","2","3","F","F",",">>
    \o <<"0","x","2","5","0","0","-","0","x","2","5","7","F",",">>
    \o <<"0","x","2","6","0","0","-","0","x","2","6","F","F",",">>
    \o <<"0","x","1","F","0","0","0","-","0","x","1","F","0","2","F",",">>
    \o <<"0","x","1","F","0","A","0","-","0","x","1","F","0","F","F",",">>
    \o <<"0","x","1","F","1","0","0","-","0","x","1","F","1","F","F",",">>
    \o <<"0","x","1","F","2","0","0","-","0","x","1","F","2","F","F",",">>
    \o <<"0","x","1","F","3","0","0","-","0","x","1","F","9","F","F",",">>
    \o <<"0","x","1","F","A","0","0","-","0","x","1","F","A","6","F",",">>
    \o <<"0","x","1","F","A","7","0","-","0","x","1","F","A","F","F">>

UNICODE_RANGES ==
    "latin" :> <<"0","x","2","0","-","0","x","7","E">> @@
    "latin_extended" :> <<"0","x","A","0","-","0","x","F","F">> @@
    "cyrillic" :> <<"0","x","0","4","0","0","-","0","x","0","4","F","F">> @@
    "greek" :> <<"0","x","0","3","7","0","-","0","x","0","3","F","F">> @@
    "japanese" :> <<"0","x","3","0","4","0","-","0","x","3","0","9","F",",","0","x","3","0","A","0","-","0","x","3","0","F","F",",","0","x","4","E","0","0","-","0","x","9","F","F","F">> @@
    "korean" :> <<"0","x","A","C","0","0","-","0","x","D","7","A","F">> @@
    "chinese" :> <<"0","x","4","E","0","0","-","0","x","9","F","F","F">> @@
    "devanagari" :> <<"0","x","0","9","0","0","-","0","x","0","9","7","F">> @@
    "emoji" :> EmojiRanges

LANGUAGE_RANGES ==
    "cs" :> <<"latin", "latin_extended">> @@
    "de_DE" :> <<"latin", "latin_extended">> @@
    "el" :> <<"latin", "greek">> @@
    "en_GB" :> <<"latin">> @@
    "en_US" :> <<"latin">> @@
    "en_x_pirate" :> <<"latin">> @@
    "es" :> <<"latin", "latin_extended">> @@
    "fil" :> <<"latin">> @@
    "fr" :> <<"latin", "latin_extended">> @@
    "hi" :> <<"latin", "devanagari">> @@
    "ID" :> <<"latin">> @@
    "it_IT" :> <<"latin", "latin_extended">> @@
    "ja" :> <<"latin", "japanese">> @@
    "ko" :> <<"latin", "korean">> @@
    "nl" :> <<"latin", "latin_extended">> @@
    "pl" :> <<"latin", "latin_extended">> @@
    "pt_BR" :> <<"latin", "latin_extended">> @@
    "ru" :> <<"latin", "cyrillic">> @@
    "sv" :> <<"latin", "latin_extended">> @@
    "tr" :> <<"latin", "latin_extended">> @@
    "zh_Latn_pinyin" :> <<"latin", "latin_extended">>

\* os.path.join(a, b) for a relative b
path_join(a, b) ==
    IF a = <<>> \/ a[Len(a)] = "/" THEN a \o b ELSE a \o <<"/">> \o b

\* the font files, in SCRIPT_DIR
UNIFONT_PATH == path_join(script_dir, <<"f","o","n","t","s","/","u","n","i","f","o","n","t","-","1","6",".","0",".","0","2",".","o","t","f">>)
UNIFONT_UPPER_PATH == path_join(script_dir, <<"f","o","n","t","s","/","u","n","i","f","o","n","t","_","u","p","p","e","r","-","1","6",".","0",".","0","2",".","o","t","f">>)
UNIFONT_JP_PATH == path_join(script_dir, <<"f","o","n","t","s","/","u","n","i","f","o","n","t","_","j","p","-","1","6",".","0",".","0","2",".","o","t","f">>)
NERD_FONT_PATH == path_join(script_dir, <<"f","o","n","t","s","/","S","y","m","b","o","l","s","N","e","r","d","F","o","n","t","M","o","n","o","-","R","e","g","u","l","a","r",".","t","t","f">>)

-----------------------------------------------------------------------------
(* String primitives of the Python runtime, on sequences of characters *)

\* value of one hexadecimal digit, either case
HexDigitValue(c) ==
    CASE c = "0" -> 0  [] c = "1" -> 1  [] c = "2" -> 2  [] c = "3" -> 3
      [] c = "4" -> 4  [] c = "5" -> 5  [] c = "6" -> 6  [] c = "7" -> 7
      [] c = "8" -> 8  [] c = "9" -> 9
      [] c \in {"a", "A"} -> 10  [] c \in {"b", "B"} -> 11
      [] c \in {"c", "C"} -> 12  [] c \in {"d", "D"} -> 13
      [] c \in {"e", "E"} -> 14  [] c \in {"f", "F"} -> 15

RECURSIVE HexFold(_, _, _)
HexFold(s, i, acc) ==
    IF i > Len(s) THEN acc
    ELSE HexFold(s, i + 1, acc * 16 + HexDigitValue(s[i]))

\* int(s, 16): an optional 0x / 0X prefix, then the digits most significant first
int16(s) ==
    LET digits == IF Len(s) >= 2 /\ s[1] = "0" /\ s[2] \in {"x", "X"}
                  THEN SubSeq(s, 3, Len(s))
                  ELSE s
    IN  HexFold(digits, 1, 0)

\* s.split(sep) for a one-character separator: the pieces between consecutive
\* separators, one more piece than separators; "".split(sep) is [""]
split(s, sep) ==
    LET pos == {i \in 1..Len(s) : s[i] = sep}
        nth(k) == CHOOSE p \in pos : Cardinality({q \in pos : q < p}) = k - 1
        first(k) == IF k = 1 THEN 1 ELSE nth(k - 1) + 1
        last(k) == IF k = Cardinality(pos) + 1 THEN Len(s) ELSE nth(k) - 1
    IN  [k \in 1..(Cardinality(pos) + 1) |-> SubSeq(s, first(k), last(k))]

RECURSIVE JoinFrom(_, _, _, _)
JoinFrom(list, sep, i, acc) ==
    IF i > Len(list) THEN acc
    ELSE JoinFrom(list, sep, i + 1,
                  IF i = 1 THEN list[i] ELSE acc \o <<sep>> \o list[i])

\* sep.join(list); the empty list joins to the empty string
join(list, sep) == JoinFrom(list, sep, 1, <<>>)

-----------------------------------------------------------------------------
(* split_range *)

split_range_swapped(range_str) ==
    LET p == split(range_str, "-")
    IN  <<int16(p[2]), int16(p[1])>>

\* start, end = range_str.split("-"); return (int(start, 16), int(end, 16))
split_range(range_str) ==
    LET p == split(range_str, "-")
    IN  <<int16(p[1]), int16(p[2])>>

-----------------------------------------------------------------------------
(* get_unicode_ranges *)

Supported(lang) == lang \in DOMAIN LANGUAGE_RANGES

scripts_of_with_chinese(lang) ==
    IF lang = "ja" THEN <<"latin", "japanese", "chinese">>
    ELSE LANGUAGE_RANGES[lang]

\* LANGUAGE_RANGES[language], the scripts the loop of line 84 walks
scripts_of(lang) == LANGUAGE_RANGES[lang]

ranges_without_emoji(lang) ==
    {UNICODE_RANGES[scripts_of(lang)[i]] : i \in 1..Len(scripts_of(lang))}

\* the set `ranges`: the emoji group string and the group string of every
\* script of the language; a set, so equal group strings are kept once
ranges(lang) ==
    {UNICODE_RANGES["emoji"]}
        \cup {UNICODE_RANGES[scripts_of(lang)[i]] : i \in 1..Len(scripts_of(lang))}

RECURSIVE Orderings(_)
Orderings(S) ==
    IF S = {} THEN {<<>>}
    ELSE UNION {{<<x>> \o p : p \in Orderings(S \ {x})} : x \in S}

\* the orders in which `for range_str in ranges` may walk the set: Python
\* fixes no iteration order for a set of strings
IterationOrders(lang) ==
    IF Supported(lang) THEN Orderings(ranges(lang)) ELSE {<<>>}

is_high_swapped(start) == start < BMP_LIMIT

is_high_never(start) == start >= BMP_LIMIT * 16

\* the test of line 95
is_high(start) == start >= BMP_LIMIT

RECURSIVE AppendParts(_, _, _)
\* the inner loop: each part of one group string goes to the end of
\* high_ranges or of low_ranges
AppendParts(parts, i, acc) ==
    IF i > Len(parts) THEN acc
    ELSE LET part == parts[i]
             start == split_range(part)[1]
         IN  AppendParts(parts, i + 1,
                 IF is_high(start)
                 THEN [acc EXCEPT !.high = Append(@, part)]
                 ELSE [acc EXCEPT !.low = Append(@, part)])

RECURSIVE Collect(_, _, _)
\* the outer loop, walking the set in the given order
Collect(order, i, acc) ==
    IF i > Len(order) THEN acc
    ELSE Collect(order, i + 1, AppendParts(split(order[i], ","), 1, acc))

RECURSIVE InsertByStart(_, _)
\* x placed behind every element whose key is not greater: what keeps the
\* sort stable
InsertByStart(sorted, x) ==
    IF sorted = <<>> THEN <<x>>
    ELSE IF split_range(Head(sorted))[1] <= split_range(x)[1]
         THEN <<Head(sorted)>> \o InsertByStart(Tail(sorted), x)
         ELSE <<x>> \o sorted

RECURSIVE SortFrom(_, _, _)
SortFrom(list, i, acc) ==
    IF i > Len(list) THEN acc
    ELSE SortFrom(list, i + 1, InsertByStart(acc, list[i]))

RECURSIVE Reversed(_)
Reversed(list) ==
    IF list = <<>> THEN <<>> ELSE Append(Reversed(Tail(list)), Head(list))

sort_by_start_reverse(list) == Reversed(SortFrom(list, 1, <<>>))

sort_by_start_skipped(list) == list

\* list.sort(key=lambda x: split_range(x)[0]): ascending by start, stable
sort_by_start(list) == SortFrom(list, 1, <<>>)

\* lines 88-104: partition, sort and join, for one iteration order of the set
partitioned(order) ==
    LET lists == Collect(order, 1, [low |-> <<>>, high |-> <<>>])
    IN  <<join(sort_by_start(lists.low), ","), join(sort_by_start(lists.high), ",")>>

NoError == [type |-> "none"]

ValueError(lang) ==
    [type |-> "ValueError", message |-> <<"Unsupported language: ", lang>>]

get_unicode_ranges_fallback(lang, order) ==
    [raised |-> FALSE, exc |-> NoError, value |-> partitioned(order)]

\* the whole function: the guard of line 78, then the computation
get_unicode_ranges(lang, order) ==
    IF ~Supported(lang)
    THEN [raised |-> TRUE, exc |-> ValueError(lang), value |-> <<>>]
    ELSE [raised |-> FALSE, exc |-> NoError, value |-> partitioned(order)]

-----------------------------------------------------------------------------
(* The resolver called directly, MaxCalls times with one language *)

\* every key of the table, and strings that are no key of it: an unknown
\* code, a key in the wrong case, a group label, the empty string
Inputs == DOMAIN LANGUAGE_RANGES \cup {"xx_unknown", "en_us", "latin", ""}

DefaultSize == 16
DefaultBpp == 1

\* values of --output: a name in ASCII; one with a character outside ASCII;
\* one in ASCII with a double quote and a tab; one with the lone surrogate that
\* stands for a byte of the command line that could not be decoded
OutputPaths ==
    {<<"f","o","n","t",".","b","i","n">>,
     <<"f","U+00F6","n","t",".","b","i","n">>,
     <<"a","U+0022","U+0009","b",".","b","i","n">>,
     <<"f","U+DC80",".","b","i","n">>}

\* directories the script may be installed in, likewise
ScriptDirs == {<<"/","o","p","t","/","f","o","n","t","g","e","n">>, <<"/","o","p","t","/","d","U+00EF","r">>}

\* encodings of stdout: one that encodes every character, one that encodes
\* ASCII only
StdoutEncodings == {"utf-8", "ascii"}

Init ==
    /\ language \in Inputs
    /\ size = DefaultSize
    /\ bpp = DefaultBpp
    /\ output = <<"f","o","n","t",".","b","i","n">>
    /\ script_dir = <<"/","o","p","t","/","f","o","n","t","g","e","n">>
    /\ stdout_encoding = "utf-8"
    /\ calls = 0
    /\ iter_orders = <<>>
    /\ returned = <<>>
    /\ error = NoError
    /\ pc = "start"
    /\ cmd = <<>>
    /\ launched = 0
    /\ proc = "none"
    /\ exit_code = "none"

CallReturns ==
    /\ calls < MaxCalls
    /\ \E order \in IterationOrders(language) :
         LET r == get_unicode_ranges(language, order)
         IN  /\ ~r.raised
             /\ iter_orders' = Append(iter_orders, order)
             /\ returned' = Append(returned, r.value)
             /\ error' = NoError
    /\ calls' = calls + 1
    /\ UNCHANGED <<language, size, bpp, output, script_dir, stdout_encoding, pc, cmd, launched, proc, exit_code>>

CallRaises ==
    /\ calls < MaxCalls
    /\ \E order \in IterationOrders(language) :
         LET r == get_unicode_ranges(language, order)
         IN  /\ r.raised
             /\ error' = r.exc
    /\ calls' = calls + 1
    /\ UNCHANGED <<language, size, bpp, output, script_dir, stdout_encoding, iter_orders, returned,
                   pc, cmd, launched, proc, exit_code>>

Next == CallReturns \/ CallRaises

Spec == Init /\ [][Next]_vars

-----------------------------------------------------------------------------
(* main: one run of the command line tool *)

\* values of --size and --bpp: the defaults and one other value each
ArgSizes == {DefaultSize, 24}
ArgBpps == {DefaultBpp, 4}

\* the printable characters of ASCII in the order of their code points, the
\* first being the space, code point 32
PrintableAscii ==
    <<
      " ", "!", "U+0022", "#", "$", "%", "&", "'", "(", ")",
      "*", "+", ",", "-", ".", "/", "0", "1", "2", "3",
      "4", "5", "6", "7", "8", "9", ":", ";", "<", "=",
      ">", "?", "@", "A", "B", "C", "D", "E", "F", "G",
      "H", "I", "J", "K", "L", "M", "N", "O", "P", "Q",
      "R", "S", "T", "U", "V", "W", "X", "Y", "Z", "[",
      "U+005C", "]", "^", "_", "U+0060", "a", "b", "c", "d", "e",
      "f", "g", "h", "i", "j", "k", "l", "m", "n", "o",
      "p", "q", "r", "s", "t", "u", "v", "w", "x", "y",
      "z", "{", "|", "}", "~">>

\* the code points of the characters written by name
NamedCodePoints ==
    "U+0009" :> 9 @@ "U+0022" :> 34 @@ "U+005C" :> 92 @@ "U+0060" :> 96 @@
    "U+00EF" :> 239 @@ "U+00F6" :> 246 @@ "U+DC80" :> 56448

\* the code point of every character the model writes
CodePoints ==
    NamedCodePoints
        @@ [c \in {PrintableAscii[k] : k \in 1..Len(PrintableAscii)} |->
                31 + (CHOOSE k \in 1..Len(PrintableAscii) : PrintableAscii[k] = c)]

\* ord(c)
code_point(c) == CodePoints[c]

RECURSIVE DigitsOf(_)
DigitsOf(n) ==
    IF n < 10 THEN <<ToString(n)>>
    ELSE Append(DigitsOf(n \div 10), ToString(n % 10))

\* str(n) for an int n: the decimal digits, behind a minus sign when negative
str_int(n) == IF n < 0 THEN <<"-">> \o DigitsOf(0 - n) ELSE DigitsOf(n)

\* lines 118-148: the argument list handed to subprocess.run
build_cmd(lang, low, high, sz, b, out) ==
    LET base_font == IF lang = "ja" THEN UNIFONT_JP_PATH ELSE UNIFONT_PATH
    IN  <<<<"l","v","_","f","o","n","t","_","c","o","n","v">>, <<"-","-","f","o","n","t">>, base_font, <<"-","-","a","u","t","o","h","i","n","t","-","o","f","f">>, <<"-","r">>, low>>
        \o (IF high # <<>>
            THEN <<<<"-","-","f","o","n","t">>, UNIFONT_UPPER_PATH, <<"-","-","a","u","t","o","h","i","n","t","-","o","f","f">>, <<"-","r">>, high>>
            ELSE <<>>)
        \o <<<<"-","-","f","o","n","t">>, NERD_FONT_PATH, <<"-","r">>, NERD_FONT_RANGE>>
        \o <<<<"-","-","s","i","z","e">>, str_int(sz), <<"-","-","f","o","r","m","a","t">>, <<"b","i","n">>, <<"-","-","b","p","p">>, str_int(b),
             <<"-","-","n","o","-","c","o","m","p","r","e","s","s">>, <<"-","o">>, out>>

\* whether the codec of sys.stdout encodes a character, errors being strict:
\* ascii the code points below 128, utf-8 all but the surrogates
\* U+D800..U+DFFF
encodes(encoding, c) ==
    CASE encoding = "ascii" -> code_point(c) < 128
      [] encoding = "utf-8" -> code_point(c) \notin 55296..57343

\* whether sys.stdout can encode a text: every character of it
encodable(text, encoding) ==
    \A i \in 1..Len(text) : encodes(encoding, text[i])

OSError == [type |-> "OSError"]

UnicodeEncodeError == [type |-> "UnicodeEncodeError"]

\* print(text): a text stdout cannot encode raises UnicodeEncodeError; one it
\* can encode is written, and the write succeeds or raises an OSError (a pipe
\* whose reader has left, a full device)
print_outcomes(text, encoding) ==
    IF encodable(text, encoding)
    THEN {NoError, OSError}
    ELSE {UnicodeEncodeError}

\* the text of line 152
cmd_text(c) == join(c, " ")

\* the characters of the closing message that are not fixed ASCII text: of
\* line 154 the output path (the language is a key of the table, in ASCII),
\* of line 156 the command inside the CalledProcessError, of line 159 none
report_text(ended, c, out) ==
    CASE ended = "exit_zero" -> out
      [] ended = "exit_nonzero" -> cmd_text(c)
      [] ended = "not_found" -> <<>>

\* how starting the converter can end (subprocess.run, in Popen): the process
\* is started, the executable is not found (FileNotFoundError), or it cannot be
\* started for another reason (another OSError, such as PermissionError)
StartOutcomes == {"started", "not_found", "os_error"}

\* how a started converter can end, once subprocess.run has waited for it:
\* with status zero, or non-zero (CalledProcessError, as check=True)
ExitOutcomes == {"exit_zero", "exit_nonzero"}

main_return_not_found_falls_through(ended) ==
    CASE ended = "exit_zero" -> 0
      [] ended = "exit_nonzero" -> 1
      [] ended = "not_found" -> 0

\* the return statements of lines 157, 162 and 164: what main returns after
\* the try statement, by the way the call of subprocess.run ended
main_return(ended) ==
    CASE ended = "exit_zero" -> 0
      [] ended = "exit_nonzero" -> 1
      [] ended = "not_found" -> 1

MainInit ==
    /\ language \in Inputs
    /\ size \in ArgSizes
    /\ bpp \in ArgBpps
    /\ output \in OutputPaths
    /\ script_dir \in ScriptDirs
    /\ stdout_encoding \in StdoutEncodings
    /\ calls = 0
    /\ iter_orders = <<>>
    /\ returned = <<>>
    /\ error = NoError
    /\ pc = "start"
    /\ cmd = <<>>
    /\ launched = 0
    /\ proc = "none"
    /\ exit_code = "none"

\* line 115, the call returns
MainResolves ==
    /\ pc = "start"
    /\ \E order \in IterationOrders(language) :
         LET r == get_unicode_ranges(language, order)
         IN  /\ ~r.raised
             /\ iter_orders' = Append(iter_orders, order)
             /\ returned' = Append(returned, r.value)
             /\ error' = NoError
    /\ calls' = calls + 1
    /\ pc' = "resolved"
    /\ UNCHANGED <<language, size, bpp, output, script_dir, stdout_encoding, cmd, launched, proc, exit_code>>

\* line 115, the call raises: main catches nothing here, the exception leaves it
MainUnsupported ==
    /\ pc = "start"
    /\ \E order \in IterationOrders(language) :
         LET r == get_unicode_ranges(language, order)
         IN  /\ r.raised
             /\ error' = r.exc
    /\ calls' = calls + 1
    /\ pc' = "raised"
    /\ UNCHANGED <<language, size, bpp, output, script_dir, stdout_encoding, iter_orders, returned,
                   cmd, launched, proc, exit_code>>

\* lines 117-148
MainBuildsCmd ==
    /\ pc = "resolved"
    /\ cmd' = build_cmd(language, returned[1][1], returned[1][2], size, bpp, output)
    /\ pc' = "built"
    /\ UNCHANGED <<language, size, bpp, output, script_dir, stdout_encoding, calls, iter_orders, returned, error,
                   launched, proc, exit_code>>

\* lines 150-152: the two prints that open the try statement, the fixed text
\* of line 151 and the command of line 152; an exception of a print is caught
\* by neither except clause and leaves main
MainAnnounces ==
    /\ pc = "built"
    /\ \E p1 \in print_outcomes(<<>>, stdout_encoding),
          p2 \in print_outcomes(cmd_text(cmd), stdout_encoding) :
         LET exc == IF p1 # NoError THEN p1 ELSE p2
         IN  IF exc = NoError
             THEN pc' = "announced" /\ error' = error
             ELSE pc' = "raised" /\ error' = exc
    /\ UNCHANGED <<language, size, bpp, output, script_dir, stdout_encoding,
                   calls, iter_orders, returned, cmd, launched, proc, exit_code>>

\* line 153, subprocess.run starts the converter: the only call of it
MainLaunches ==
    /\ pc = "announced"
    /\ launched' = launched + 1
    /\ \E st \in StartOutcomes :
         CASE st = "started" ->
                  proc' = "running" /\ pc' = "waiting" /\ error' = error
           [] st = "not_found" ->
                  proc' = "not_found" /\ pc' = "finished" /\ error' = error
           [] st = "os_error" ->
                  proc' = "os_error" /\ pc' = "raised" /\ error' = OSError
    /\ UNCHANGED <<language, size, bpp, output, script_dir, stdout_encoding, calls, iter_orders, returned, cmd,
                   exit_code>>

\* line 153, subprocess.run waits for the converter to exit, with no timeout
MainWaits ==
    /\ pc = "waiting"
    /\ \E ended \in ExitOutcomes : proc' = ended
    /\ pc' = "finished"
    /\ UNCHANGED <<language, size, bpp, output, script_dir, stdout_encoding, calls, iter_orders, returned, error,
                   cmd, launched, exit_code>>

\* lines 154-164: the print of line 154, 156 or 159, then the return; an
\* exception of the print leaves main before the return
MainReports ==
    /\ pc = "finished"
    /\ \E p \in print_outcomes(report_text(proc, cmd, output), stdout_encoding) :
         IF p = NoError
         THEN /\ exit_code' = main_return(proc)
              /\ pc' = "returned"
              /\ error' = error
         ELSE /\ exit_code' = exit_code
              /\ pc' = "raised"
              /\ error' = p
    /\ UNCHANGED <<language, size, bpp, output, script_dir, stdout_encoding,
                   calls, iter_orders, returned, cmd, launched, proc>>

MainNext ==
    \/ MainResolves
    \/ MainUnsupported
    \/ MainBuildsCmd
    \/ MainAnnounces
    \/ MainLaunches
    \/ MainWaits
    \/ MainReports

MainSpec == MainInit /\ [][MainNext]_vars

-----------------------------------------------------------------------------
(* Vocabulary of the properties *)

\* the interval tokens of a returned string: the pieces between its commas,
\* none for the empty string
tokens_of(str) == IF str = <<>> THEN <<>> ELSE split(str, ",")

elements_of(list) == {list[k] : k \in 1..Len(list)}

start_of(token) == split_range(token)[1]

end_of(token) == split_range(token)[2]

low_of(value) == tokens_of(value[1])

high_of(value) == tokens_of(value[2])

\* the interval tokens of one group of UNICODE_RANGES
group_tokens(label) == elements_of(split(UNICODE_RANGES[label], ","))

\* what a language is to get: the emoji tokens and those of every listed group
expected_tokens(lang) ==
    group_tokens("emoji")
        \cup UNION {group_tokens(LANGUAGE_RANGES[lang][i]) :
                        i \in 1..Len(LANGUAGE_RANGES[lang])}

no_duplicates(list) ==
    \A j, k \in 1..Len(list) : j # k => list[j] # list[k]

\* each start is at most the next one
ascending_by_start(list) ==
    \A k \in 1..(Len(list) - 1) : start_of(list[k]) <= start_of(list[k + 1])

\* each start is below the next one
strictly_ascending_by_start(list) ==
    \A k \in 1..(Len(list) - 1) : start_of(list[k]) < start_of(list[k + 1])

\* every place of the static tables where an interval token stands: group
\* label and index in the group string
table_positions ==
    UNION {{<<label, k>> : k \in 1..Len(split(UNICODE_RANGES[label], ","))} :
               label \in DOMAIN UNICODE_RANGES}

\* the pairs of different places of the static tables whose interval tokens
\* have the same start
shared_start_pairs ==
    {pq \in table_positions \X table_positions :
        /\ pq[1] # pq[2]
        /\ start_of(split(UNICODE_RANGES[pq[1][1]], ",")[pq[1][2]])
               = start_of(split(UNICODE_RANGES[pq[2][1]], ",")[pq[2][2]])}

\* the places of the static tables whose interval has start > end or holds
\* code points on both sides of 0x10000
straddling_positions ==
    {p \in table_positions :
        LET t == split(UNICODE_RANGES[p[1]], ",")[p[2]]
        IN  ~ /\ start_of(t) <= end_of(t)
              /\ end_of(t) < BMP_LIMIT \/ start_of(t) >= BMP_LIMIT}

\* every place where the loops of lines 91-92 meet an interval token for a
\* language: group string of the set and index in it
selected_positions(lang) ==
    UNION {{<<str, k>> : k \in 1..Len(split(str, ","))} : str \in ranges(lang)}

LatinToken == <<"0","x","2","0","-","0","x","7","E">>

\* the eleven sub-ranges the source lists for emoji
EmojiLowListed ==
    {<<"0","x","2","1","9","0","-","0","x","2","1","F","F">>,
     <<"0","x","2","3","0","0","-","0","x","2","3","F","F">>,
     <<"0","x","2","5","0","0","-","0","x","2","5","7","F">>,
     <<"0","x","2","6","0","0","-","0","x","2","6","F","F">>}

EmojiHighListed ==
    {<<"0","x","1","F","0","0","0","-","0","x","1","F","0","2","F">>,
     <<"0","x","1","F","0","A","0","-","0","x","1","F","0","F","F">>,
     <<"0","x","1","F","1","0","0","-","0","x","1","F","1","F","F">>,
     <<"0","x","1","F","2","0","0","-","0","x","1","F","2","F","F">>,
     <<"0","x","1","F","3","0","0","-","0","x","1","F","9","F","F">>,
     <<"0","x","1","F","A","0","0","-","0","x","1","F","A","6","F">>,
     <<"0","x","1","F","A","7","0","-","0","x","1","F","A","F","F">>}

-----------------------------------------------------------------------------
(* Properties of get_unicode_ranges, checked under Spec *)

\* C1: for every language code of LANGUAGE_RANGES the call returns without
\* error, and the interval tokens of the low and the high string together are
\* exactly the emoji tokens plus the tokens of every group the language lists:
\* each of them appears, nothing else appears, and none appears twice across or
\* within the two strings.
C1_ExactlyTheSelectedTokens ==
    Supported(language) =>
        /\ error = NoError
        /\ Len(returned) = calls
        /\ \A i \in 1..Len(returned) :
             LET all == low_of(returned[i]) \o high_of(returned[i])
             IN  /\ elements_of(all) = expected_tokens(language)
                 /\ no_duplicates(all)

C1_Witness ==
    /\ language = "ja"
    /\ Len(returned) >= 1
    /\ Len(low_of(returned[1])) = 8
    /\ Len(high_of(returned[1])) = 7

\* C2: for every supported language every interval of the low string starts
\* below 0x10000 and every interval of the high string starts at or above it.
C2_PartitionedByStart ==
    \A i \in 1..Len(returned) :
        /\ \A t \in elements_of(low_of(returned[i])) : start_of(t) < BMP_LIMIT
        /\ \A t \in elements_of(high_of(returned[i])) : start_of(t) >= BMP_LIMIT

C2_Witness ==
    /\ language = "ko"
    /\ Len(returned) >= 1
    /\ \E t \in elements_of(low_of(returned[1])) : start_of(t) = 44032
    /\ \E t \in elements_of(high_of(returned[1])) : start_of(t) = 126976

\* C3: for every supported language the intervals of the low string and those
\* of the high string are each in ascending order of their numeric start.
C3_SortedByStart ==
    \A i \in 1..Len(returned) :
        /\ ascending_by_start(low_of(returned[i]))
        /\ ascending_by_start(high_of(returned[i]))

\* the set was walked emoji first, so that the lists were out of order before
\* the sort: the language's own intervals start below the emoji ones
C3_Witness ==
    /\ language = "ru"
    /\ Len(returned) >= 1
    /\ iter_orders[1][1] = UNICODE_RANGES["emoji"]
    /\ Len(low_of(returned[1])) = 6

\* C4: a call with a string that is no key of LANGUAGE_RANGES raises the
\* ValueError that names the string and returns nothing, no low and no high
\* string; and the error is raised for no other input.
C4_UnsupportedRaises ==
    /\ (~Supported(language)) =>
           /\ returned = <<>>
           /\ iter_orders = <<>>
           /\ calls > 0 =>
                /\ error.type = "ValueError"
                /\ error.message = <<"Unsupported language: ", language>>
    /\ error.type = "ValueError" => ~Supported(language)

C4_Witness ==
    /\ language = "xx_unknown"
    /\ calls = 2
    /\ error.type = "ValueError"
    /\ returned = <<>>

\* C5: every call with one supported language code returns the same two
\* strings, character for character, whatever order the set of group strings
\* was walked in on each call.
C5_SameOutputEveryCall ==
    \A i, j \in 1..Len(returned) : returned[i] = returned[j]

C5_Witness ==
    /\ Len(returned) = 2
    /\ Len(iter_orders[1]) = 3
    /\ iter_orders[1] # iter_orders[2]

\* C6, as claimed: for "en_US" the low string holds exactly Basic Latin and
\* every listed emoji sub-range, and the high string exactly the emoji
\* sub-ranges that start at or above 0x10000.
C6_AsClaimed ==
    (language = "en_US") =>
        \A i \in 1..Len(returned) :
            /\ elements_of(low_of(returned[i]))
                   = {LatinToken} \cup EmojiLowListed \cup EmojiHighListed
            /\ elements_of(high_of(returned[i])) = EmojiHighListed

\* C6, amended: for "en_US" the low string holds exactly Basic Latin and the
\* listed emoji sub-ranges that start below 0x10000, and the high string
\* exactly the listed emoji sub-ranges that start at or above 0x10000.
C6_EnUsScenario ==
    (language = "en_US") =>
        \A i \in 1..Len(returned) :
            /\ elements_of(low_of(returned[i])) = {LatinToken} \cup EmojiLowListed
            /\ Len(low_of(returned[i])) = 5
            /\ elements_of(high_of(returned[i])) = EmojiHighListed
            /\ Len(high_of(returned[i])) = 7

C6_Witness ==
    /\ language = "en_US"
    /\ Len(returned) >= 1
    /\ returned[1][1] # <<>>
    /\ returned[1][2] # <<>>

\* C9, as claimed: no two interval tokens anywhere in UNICODE_RANGES share a
\* start value; stated of the tables every returning call has read.
C9_AsClaimed ==
    Len(returned) >= 1 => shared_start_pairs = {}

\* C9, amended: no two interval tokens anywhere in UNICODE_RANGES share a
\* start value, but for the one interval 0x4E00-0x9FFF that stands both third
\* in japanese and first in chinese; no supported language selects both
\* groups, so among the groups selected for a language (emoji and the groups
\* it lists) no two tokens share a start (there are as many different starts
\* as places), the starts of each returned string strictly ascend and the
\* sort met no tie.
C9_NoTieButTheSharedCjk ==
    /\ shared_start_pairs = {<< <<"japanese", 3>>, <<"chinese", 1>> >>,
                             << <<"chinese", 1>>, <<"japanese", 3>> >>}
    /\ Supported(language) =>
           /\ Cardinality({start_of(split(p[1], ",")[p[2]]) :
                               p \in selected_positions(language)})
                  = Cardinality(selected_positions(language))
           /\ \A i \in 1..Len(returned) :
                  /\ strictly_ascending_by_start(low_of(returned[i]))
                  /\ strictly_ascending_by_start(high_of(returned[i]))

\* Japanese has the interval that chinese has too, and its call has returned
C9_Witness ==
    /\ language = "ja"
    /\ Len(returned) >= 1
    /\ \E t \in elements_of(low_of(returned[1])) :
           t \in group_tokens("chinese")

\* C10: no interval of any group of UNICODE_RANGES straddles 0x10000: each has
\* start <= end and either end < 0x10000 or start >= 0x10000; so every interval
\* placed in low lies wholly below 0x10000 and every interval placed in high
\* wholly at or above it.
C10_NoStraddle ==
    /\ straddling_positions = {}
    /\ \A i \in 1..Len(returned) :
           /\ \A t \in elements_of(low_of(returned[i])) :
                  start_of(t) <= end_of(t) /\ end_of(t) < BMP_LIMIT
           /\ \A t \in elements_of(high_of(returned[i])) :
                  BMP_LIMIT <= start_of(t) /\ start_of(t) <= end_of(t)

\* the last interval of japanese, which ends at 0x9FFF, was placed in low
C10_Witness ==
    /\ language = "ja"
    /\ Len(returned) = 2
    /\ \E t \in elements_of(low_of(returned[2])) : end_of(t) = 40959

-----------------------------------------------------------------------------
(* Properties of main, checked under MainSpec *)

\* C7: in a run whose language argument is no key of LANGUAGE_RANGES the error
\* comes up before anything is launched, so the converter is never invoked and
\* no command was built; and in every run the converter is invoked at most
\* once.
C7_NoLaunchForUnsupported ==
    /\ (~Supported(language)) =>
           /\ launched = 0
           /\ proc = "none"
           /\ cmd = <<>>
           /\ pc \in {"start", "raised"}
    /\ launched <= 1
    /\ pc \in {"start", "resolved", "built", "announced"} => launched = 0

C7_Witness ==
    /\ ~Supported(language)
    /\ pc = "raised"
    /\ error.type = "ValueError"
    /\ launched = 0

\* C8, as claimed: for a supported language, once main has ended it has
\* returned 0 exactly when the converter ran and exited with status zero, and
\* it has returned 1 when the converter exited non-zero or could not be
\* located.
C8_AsClaimed ==
    (Supported(language) /\ pc \in {"returned", "raised"}) =>
        /\ (pc = "returned" /\ exit_code = 0) <=> proc = "exit_zero"
        /\ proc \in {"exit_nonzero", "not_found"} =>
               (pc = "returned" /\ exit_code = 1)

\* C8, amended: for a supported language, whenever main returns, it returns 0
\* exactly when the converter ran and exited with status zero and 1 exactly
\* when the converter exited non-zero or could not be located; when main
\* returns nothing, an exception has left it: one of its prints failed
\* (OSError, or UnicodeEncodeError for a text stdout cannot encode), or the
\* converter could not be started for a reason other than not being found.
C8_ExitCodes ==
    Supported(language) =>
        /\ pc = "returned" =>
               /\ exit_code \in {0, 1}
               /\ exit_code = 0 <=> (launched = 1 /\ proc = "exit_zero")
               /\ exit_code = 1 <=> proc \in {"exit_nonzero", "not_found"}
        /\ pc = "raised" =>
               /\ error \in {OSError, UnicodeEncodeError}
               /\ exit_code = "none"

C8_Witness ==
    /\ Supported(language)
    /\ pc = "returned"
    /\ proc = "not_found"
    /\ exit_code = 1

=============================================================================
